---- MODULE Spec2Model ----
(***************************************************************************)
(* Model of the sparse-file stress and verification tool                   *)
(* (src/win-hcsvm/Makefile, the Go program that starts at line 22).        *)
(*                                                                         *)
(* One run of main() is a sequential process: validate the flags, create   *)
(* and truncate the file, run the write loop, scan the file, print the     *)
(* summary.  The variables are indexed by a run (Procs) so that two runs   *)
(* of the same configuration can be compared; Spec executes run 1 alone.   *)
(* The file is a sequence of bytes.  Draws from a math/rand generator are  *)
(* nondeterministic choices, logged per generator, and a second run with   *)
(* the same generator state replays the logged values.                     *)
(***************************************************************************)
EXTENDS Integers, Sequences, FiniteSets, TLC

\* ------------------------------------------------------------------ bounds
MaxBlocks  == 2   \* largest -blocks value explored
MaxFaults  == 1   \* storage faults (failed or corrupted reads) per run
MaxRetries == 1   \* rejected start-index draws explored per stream placement

\* --------------------------------------------------------- checksum codec
\* mutant: a power-of-two modulus in place of the largest prime below 2^16
AdlerModPow2 == 2 ^ 7

AdlerMod == 65521

RECURSIVE AdlerA(_)
\* hash/adler32: low half, a = 1 + sum of the bytes (mod 65521)
AdlerA(s) ==
    IF s = << >> THEN 1
    ELSE (AdlerA(SubSeq(s, 1, Len(s) - 1)) + s[Len(s)]) % AdlerMod

RECURSIVE AdlerB(_)
\* hash/adler32: high half, b = sum of the successive values of a (mod 65521)
AdlerB(s) ==
    IF s = << >> THEN 0
    ELSE (AdlerB(SubSeq(s, 1, Len(s) - 1)) + AdlerA(s)) % AdlerMod

\* A uint32 is kept as its two 16-bit halves << high, low >>, so that no value
\* leaves the range of the model checker's integers.
\* adler32.Checksum: (b << 16) | a
Checksum(s) == << AdlerB(s), AdlerA(s) >>

\* mutant: the checksum stored most significant byte first
PutUint32BigEndian(v) ==
    << v[1] \div 256, v[1] % 256, v[2] \div 256, v[2] % 256 >>

\* binary.LittleEndian.PutUint32
PutUint32(v) ==
    << v[2] % 256, v[2] \div 256, v[1] % 256, v[1] \div 256 >>

\* binary.LittleEndian.Uint32
Uint32(s) == << s[3] + 256 * s[4], s[1] + 256 * s[2] >>

Zeros(n) == [k \in 1..n |-> 0]

\* fillBuf's two size checks; either one ends the process (log.Fatal)
FillBufFatal(n) == n < 8 \/ n % 4 # 0

\* fillBuf past its size checks: rnd holds the n bytes drawn by rand.Intn(255);
\* the last word is overwritten with the checksum of the bytes before it
fillBuf(n, rnd) ==
    LET b    == [k \in 1..n |-> rnd[k]]
        csum == Checksum(SubSeq(b, 1, Len(b) - 4))
        a    == PutUint32(csum)
    IN  [k \in 1..n |-> IF k > Len(b) - 4 THEN a[k - (Len(b) - 4)] ELSE b[k]]

verifyBuf(b) ==
    LET csum1 == Checksum(SubSeq(b, 1, Len(b) - 4))
        csum2 == Uint32(SubSeq(b, Len(b) - 4 + 1, Len(b)))
    IN  csum1 = csum2

\* printBuf reads b[i+j] for i = 0, 16, 32, ... < len(b) and j = 0..15 with no
\* bound check: an index past the end is a run-time panic
printBufPanics(b) ==
    \E i \in 0..(Len(b) - 1), j \in 0..15 : i % 16 = 0 /\ i + j >= Len(b)


\* ------------------------------------------------------------- the inputs
Procs == {1, 2}
Other(p) == IF p = 1 THEN 2 ELSE 1

Modes        == {"rand", "seq", "stream"}
BlockSizes   == {4, 8, 10, 16}   \* -blocksize; positive (0 divides by zero at line 66)
FileSizes    == {8, 20, 32}
StreamBounds == { <<0, 1>>, <<1, 2>>, <<2, 3>>, <<2, 2>> }   \* <<stream-min, stream-max>>
SyncVals     == {0, 2}
Seeds        == {42, 7}      \* -seed
GSeeds       == {1, 2}       \* start state of the process-wide math/rand source

\* -blocks is a count: 0 and up
Configs ==
    [ blockSz : BlockSizes, numBlocks : 0..MaxBlocks, fileSz : FileSizes, mode : Modes,
      stream : StreamBounds, syncBlocks : SyncVals ]

\* the n bytes one fillBuf call can draw, byte(rand.Intn(255)) each
ByteDraws(n) == { Zeros(n), [k \in 1..n |-> (37 * k) % 255] }

\* one bit of one byte inverted
FlipBit(s, pos, bit) ==
    [s EXCEPT ![pos] = IF (s[pos] \div (2 ^ bit)) % 2 = 1
                       THEN s[pos] - 2 ^ bit ELSE s[pos] + 2 ^ bit]

\* what a faulty storage layer can hand back instead of the stored bytes
CorruptReads(data) == { FlipBit(data, pos, 0) : pos \in {1, Len(data)} }

\* ---------------------------------------------------------------- state
VARIABLES
    cfg,           \* the parsed flags (lines 50-60), shared by the runs compared
    faulty,        \* whether the storage layer may fail or corrupt a read
    seed,          \* seed[p]: -seed of run p
    gseed,         \* gseed[p]: start state of run p's global math/rand source
    pc,            \* position of run p in main()
    err,           \* why run p ended abnormally ("" otherwise)
    exists,        \* the backing file has been created
    file,          \* the bytes of the backing file
    i,             \* write loop index
    off,           \* var off int64
    streamBlocks,  \* var streamBlocks int64
    b,             \* the block filled this iteration, while its run is being placed
    retries,       \* start indexes rejected so far in the current placement
    vi,            \* verify loop index
    count,         \* non-zero blocks counted by the verify loop
    faults,        \* storage faults injected so far
    out,           \* the counts printed by "Verified %d blocks"
    rlog,          \* values drawn from r, the generator seeded with -seed
    glog,          \* values drawn from the global math/rand source
    wlog,          \* the WriteAt calls made
    reads,         \* the ReadAt calls made and what the loop did with each
    mism,          \* the blocks reported as "did not verify"
    syncs,         \* the loop indexes after which Sync was called
    cPhase, cSize, cRnd, cBuf, cOk     \* codec harness (SpecCodec)

runVars   == << cfg, faulty, seed, gseed, pc, err, exists, file, i, off, streamBlocks, b,
                retries, vi, count, faults, out, rlog, glog, wlog, reads, mism, syncs >>
codecVars == << cPhase, cSize, cRnd, cBuf, cOk >>
vars      == << runVars, codecVars >>

blockSz     == cfg.blockSz
numBlocks   == cfg.numBlocks
fileSz      == cfg.fileSz
mode        == cfg.mode
minBlocks   == cfg.stream[1]
maxBlocks   == cfg.stream[2]
syncBlocks  == cfg.syncBlocks
totalBlocks == fileSz \div blockSz

Set(f, p, v) == [f EXCEPT ![p] = v]

RunInit ==
    /\ pc = [p \in Procs |-> "validate"]
    /\ err = [p \in Procs |-> ""]
    /\ exists = [p \in Procs |-> FALSE]
    /\ file = [p \in Procs |-> << >>]
    /\ i = [p \in Procs |-> 0]
    /\ off = [p \in Procs |-> 0]
    /\ streamBlocks = [p \in Procs |-> 0]
    /\ b = [p \in Procs |-> << >>]
    /\ retries = [p \in Procs |-> 0]
    /\ vi = [p \in Procs |-> 0]
    /\ count = [p \in Procs |-> 0]
    /\ faults = [p \in Procs |-> 0]
    /\ out = [p \in Procs |-> << >>]
    /\ rlog = [p \in Procs |-> << >>]
    /\ glog = [p \in Procs |-> << >>]
    /\ wlog = [p \in Procs |-> << >>]
    /\ reads = [p \in Procs |-> << >>]
    /\ mism = [p \in Procs |-> {}]
    /\ syncs = [p \in Procs |-> << >>]

CodecIdle ==
    /\ cPhase = "off"
    /\ cSize = 0
    /\ cRnd = << >>
    /\ cBuf = << >>
    /\ cOk = FALSE

Init ==
    /\ cfg \in Configs
    /\ faulty = TRUE
    /\ seed = [p \in Procs |-> 42]
    /\ gseed = [p \in Procs |-> 1]
    /\ RunInit
    /\ CodecIdle

\* ------------------------------------------------------------ generators
\* The next value drawn from r by run p: a run whose generator was seeded alike and
\* that has already made this draw fixes the value.
RDraw(p, v) ==
    LET q == Other(p)
        k == Len(rlog[p]) + 1
    IN  (seed[q] = seed[p] /\ Len(rlog[q]) >= k) => v = rlog[q][k]

\* The k-th value run p draws from the global source, likewise.
GDraw(p, k, v) ==
    LET q == Other(p)
    IN  (gseed[q] = gseed[p] /\ Len(glog[q]) >= k) => v = glog[q][k]

\* ------------------------------------------------------------ validation
\* mutant: equal stream bounds let through (> for >=)
ConfigRejectedStrict ==
    \/ cfg.blockSz >= cfg.fileSz
    \/ cfg.stream[1] > cfg.stream[2]
    \/ (cfg.mode = "seq" /\ cfg.numBlocks > cfg.fileSz \div cfg.blockSz)

\* lines 68-79: the three log.Fatal checks made before the file is created
ConfigRejected ==
    \/ blockSz >= fileSz
    \/ minBlocks >= maxBlocks
    \/ (mode = "seq" /\ numBlocks > totalBlocks)

Validate(p) ==
    /\ pc[p] = "validate"
    /\ IF ConfigRejected
       THEN /\ pc' = Set(pc, p, "fatal")
            /\ err' = Set(err, p, "config")
       ELSE /\ pc' = Set(pc, p, "create")
            /\ err' = err
    /\ UNCHANGED << cfg, faulty, seed, gseed, exists, file, i, off, streamBlocks, b, retries,
                    vi, count, faults, out, rlog, glog, wlog, reads, mism, syncs, codecVars >>

\* the storage layer may fail one more call of run p
MayFail(p) == faulty /\ faults[p] < MaxFaults

\* mutant: the error of a failed call is logged and the run goes on (log.Print for
\* log.Fatal)
OnIOErrorContinue(p, what) ==
    /\ pc' = pc
    /\ err' = Set(err, p, what)
    /\ faults' = Set(faults, p, faults[p] + 1)

\* lines 85-87, 92-94, 129-131, 134-136: log.Fatal on the error of a failed call
OnIOError(p, what) ==
    /\ pc' = Set(pc, p, "fatal")
    /\ err' = Set(err, p, what)
    /\ faults' = Set(faults, p, faults[p] + 1)

\* lines 84-87: os.Create makes the file, or empties the one that is there; when it
\* fails there is no file and the run ends
Create(p) ==
    /\ pc[p] = "create"
    /\ \/ /\ exists' = Set(exists, p, TRUE)
          /\ file' = Set(file, p, << >>)
          /\ pc' = Set(pc, p, "truncate")
          /\ UNCHANGED << err, faults >>
       \/ /\ MayFail(p)
          /\ OnIOError(p, "create")
          /\ UNCHANGED << exists, file >>
    /\ UNCHANGED << cfg, faulty, seed, gseed, i, off, streamBlocks, b, retries,
                    vi, count, out, rlog, glog, wlog, reads, mism, syncs, codecVars >>

\* lines 92-94: syscall.Ftruncate extends the empty file with zero bytes; when it
\* fails the file stays empty and the run ends
Ftruncate(p) ==
    /\ pc[p] = "truncate"
    /\ \/ /\ file' = Set(file, p, Zeros(fileSz))
          /\ pc' = Set(pc, p, "write")
          /\ UNCHANGED << err, faults >>
       \/ /\ MayFail(p)
          /\ OnIOError(p, "truncate")
          /\ UNCHANGED file
    /\ UNCHANGED << cfg, faulty, seed, gseed, exists, i, off, streamBlocks, b, retries,
                    vi, count, out, rlog, glog, wlog, reads, mism, syncs, codecVars >>

\* ------------------------------------------------------------ write loop
\* mutant: the block lands one byte after the offset asked for
WriteAtShifted(f, blk, o) ==
    LET end    == o + 1 + Len(blk)
        newLen == IF end > Len(f) THEN end ELSE Len(f)
    IN  [k \in 1..newLen |-> IF k > o + 1 /\ k <= end THEN blk[k - o - 1]
                             ELSE IF k <= Len(f) THEN f[k] ELSE 0]

\* os.File.WriteAt: the bytes of blk replace those at o+1 .. o+len(blk); a write past
\* the end extends the file, the gap reading as zeros
WriteAt(f, blk, o) ==
    LET end    == o + Len(blk)
        newLen == IF end > Len(f) THEN end ELSE Len(f)
    IN  [k \in 1..newLen |-> IF k > o /\ k <= end THEN blk[k - o]
                             ELSE IF k <= Len(f) THEN f[k] ELSE 0]

\* mutant: a start offset that is not a multiple of the block size
RandOffsetUnaligned(v) == v * cfg.blockSz + cfg.blockSz \div 2

\* line 104: case "rand", from the value drawn by r.Int63n(totalBlocks)
RandOffset(v) == v * blockSz

\* mutant: sequential offsets one block too far
SeqOffsetNext(n) == (n + 1) * cfg.blockSz

\* line 106: case "seq"
SeqOffset(n) == n * blockSz

\* mutant: stream length off by one
StreamLengthPlusOne(d) == cfg.stream[1] + d + 1

\* lines 110-111: the length of a new stream, from the value d drawn by
\* rand.Int63n(maxBlocks - minBlocks + 1)
StreamLength(d) == minBlocks + d

\* line 115: the test that ends the placement loop
StartFits(offBlock, len) == offBlock + len <= totalBlocks

\* line 121: the next offset inside a stream
StreamNext(o) == o + blockSz

\* line 133: whether Sync is called after the write of loop index n
SyncDue(n) == syncBlocks # 0 /\ n % syncBlocks = 0

\* the numbers of bytes a failing WriteAt of blk can have put in the file before
\* its error: none, or the first half of the block
PartialWrites(blk) == {0, Len(blk) \div 2}

\* lines 125-137 and the loop's i++: the write of blk at offset o, the periodic Sync.
\* WriteAt succeeds, or fails after a part of the block; Sync, when due, succeeds or
\* fails; either failure ends the run before the loop index moves.
Written(p, blk, o, sb, new, len) ==
    /\ off' = Set(off, p, o)
    /\ streamBlocks' = Set(streamBlocks, p, sb)
    /\ \/ /\ file' = Set(file, p, WriteAt(file[p], blk, o))
          /\ wlog' = Set(wlog, p, Append(wlog[p],
                                         [off |-> o, data |-> blk, new |-> new, len |-> len]))
          /\ b' = Set(b, p, << >>)
          /\ \/ /\ syncs' = Set(syncs, p, IF SyncDue(i[p]) THEN Append(syncs[p], i[p])
                                                           ELSE syncs[p])
                /\ i' = Set(i, p, i[p] + 1)
                /\ pc' = Set(pc, p, "write")
                /\ UNCHANGED << err, faults >>
             \/ /\ SyncDue(i[p])
                /\ MayFail(p)
                /\ syncs' = Set(syncs, p, Append(syncs[p], i[p]))
                /\ OnIOError(p, "sync")
                /\ UNCHANGED i
       \/ /\ MayFail(p)
          /\ \E n \in PartialWrites(blk) :
                file' = Set(file, p, IF n = 0 THEN file[p]
                                     ELSE WriteAt(file[p], SubSeq(blk, 1, n), o))
          /\ b' = Set(b, p, blk)
          /\ OnIOError(p, "write")
          /\ UNCHANGED << wlog, syncs, i >>

\* lines 99-137: one iteration of the write loop, up to the placement loop of a new
\* stream (lines 113-118), which Place continues
WriteIter(p) ==
    /\ pc[p] = "write"
    /\ i[p] < numBlocks
    /\ IF FillBufFatal(blockSz)
       THEN /\ pc' = Set(pc, p, "fatal")
            /\ err' = Set(err, p, "fillBuf")
            /\ UNCHANGED << file, off, streamBlocks, wlog, syncs, i, b, rlog, glog, retries,
                            faults >>
       ELSE \E rnd \in ByteDraws(blockSz) :
            /\ GDraw(p, Len(glog[p]) + 1, rnd)
            /\ LET blk == fillBuf(blockSz, rnd) IN
               CASE mode = "rand" ->
                      \E v \in 0..(totalBlocks - 1) :
                         /\ RDraw(p, v)
                         /\ rlog' = Set(rlog, p, Append(rlog[p], v))
                         /\ glog' = Set(glog, p, Append(glog[p], rnd))
                         /\ Written(p, blk, RandOffset(v), streamBlocks[p], FALSE, 0)
                         /\ UNCHANGED retries
                 [] mode = "seq" ->
                      /\ glog' = Set(glog, p, Append(glog[p], rnd))
                      /\ Written(p, blk, SeqOffset(i[p]), streamBlocks[p], FALSE, 0)
                      /\ UNCHANGED << rlog, retries >>
                 [] mode = "stream" ->
                      IF streamBlocks[p] = 0
                      THEN \E d \in 0..(maxBlocks - minBlocks) :
                              /\ GDraw(p, Len(glog[p]) + 2, d)
                              /\ glog' = Set(glog, p, glog[p] \o << rnd, d >>)
                              /\ streamBlocks' = Set(streamBlocks, p, StreamLength(d))
                              /\ b' = Set(b, p, blk)
                              /\ retries' = Set(retries, p, 0)
                              /\ pc' = Set(pc, p, "place")
                              /\ UNCHANGED << file, off, wlog, syncs, i, rlog, err, faults >>
                      ELSE /\ glog' = Set(glog, p, Append(glog[p], rnd))
                           /\ Written(p, blk, StreamNext(off[p]), streamBlocks[p] - 1, FALSE, 0)
                           /\ UNCHANGED << rlog, retries >>
    /\ UNCHANGED << cfg, faulty, seed, gseed, exists, vi, count, out, reads, mism,
                    codecVars >>

\* lines 113-123: one pass of the placement loop of a new stream: draw a start block,
\* and when the stream fits take it, write the block filled by WriteIter and finish
\* the iteration; otherwise draw again
Place(p) ==
    /\ pc[p] = "place"
    /\ \E v \in 0..(totalBlocks - 1) :
          /\ RDraw(p, v)
          /\ rlog' = Set(rlog, p, Append(rlog[p], v))
          /\ IF StartFits(v, streamBlocks[p])
             THEN /\ Written(p, b[p], RandOffset(v), streamBlocks[p] - 1, TRUE, streamBlocks[p])
                  /\ UNCHANGED retries
             ELSE /\ retries[p] < MaxRetries
                  /\ retries' = Set(retries, p, retries[p] + 1)
                  /\ UNCHANGED << file, off, streamBlocks, wlog, syncs, i, b, pc, err, faults >>
    /\ UNCHANGED << cfg, faulty, seed, gseed, exists, vi, count, out, glog, reads,
                    mism, codecVars >>

\* ----------------------------------------------------------- verification
\* lines 140-143: the write loop is over; the scan starts with count = 0
StartVerify(p) ==
    /\ pc[p] = "write"
    /\ i[p] >= numBlocks
    /\ pc' = Set(pc, p, "verify")
    /\ vi' = Set(vi, p, 0)
    /\ count' = Set(count, p, 0)
    /\ UNCHANGED << cfg, faulty, seed, gseed, err, exists, file, i, off, streamBlocks, b, retries,
                    faults, out, rlog, glog, wlog, reads, mism, syncs, codecVars >>

\* the bytes a successful ReadAt(b, o) of n bytes returns
ReadAt(f, o, n) == SubSeq(f, o + 1, o + n)

\* mutant: the block compared with a zero buffer of another length
IsEmptyWrongSize(blk) == blk = Zeros(Len(blk) + 1)

\* line 155: bytes.Equal(b, empty)
IsEmpty(blk) == blk = Zeros(Len(blk))

\* mutant: count++ moved after the checksum test
CountedIfVerified(res) == res = "good"

\* lines 150-158: count++ is reached when the read succeeded and the block is not
\* all-zero, before verifyBuf is called
Counted(res) == res \in {"good", "bad"}

\* what ReadAt can do at offset o: fail, or fill the buffer with the stored bytes
\* or, on faulty storage, with corrupted ones
ReadResults(p, o) ==
    LET data == ReadAt(file[p], o, blockSz)
    IN  { [fault |-> FALSE, ok |-> TRUE, data |-> data] }
        \cup IF faulty /\ faults[p] < MaxFaults
             THEN { [fault |-> TRUE, ok |-> FALSE, data |-> data] }
                  \cup { [fault |-> TRUE, ok |-> TRUE, data |-> c] : c \in CorruptReads(data) }
             ELSE {}

\* lines 144-166: one iteration of the verify loop
VerifyIter(p) ==
    /\ pc[p] = "verify"
    /\ vi[p] < totalBlocks
    /\ \E r \in ReadResults(p, vi[p] * blockSz) :
          LET res == IF ~r.ok THEN "err"
                     ELSE IF IsEmpty(r.data) THEN "zero"
                     ELSE IF verifyBuf(r.data) THEN "good" ELSE "bad"
          IN
          /\ faults' = Set(faults, p, IF r.fault THEN faults[p] + 1 ELSE faults[p])
          /\ reads' = Set(reads, p, Append(reads[p], [i |-> vi[p], res |-> res]))
          /\ count' = Set(count, p, IF Counted(res) THEN count[p] + 1 ELSE count[p])
          /\ mism' = Set(mism, p, IF res = "bad" THEN mism[p] \cup {vi[p]} ELSE mism[p])
          /\ IF res = "bad" /\ printBufPanics(r.data)
             THEN /\ pc' = Set(pc, p, "panic")
                  /\ err' = Set(err, p, "index out of range")
                  /\ UNCHANGED vi
             ELSE /\ vi' = Set(vi, p, vi[p] + 1)
                  /\ UNCHANGED << pc, err >>
    /\ UNCHANGED << cfg, faulty, seed, gseed, exists, file, i, off, streamBlocks, b, retries,
                    out, rlog, glog, wlog, syncs, codecVars >>

\* lines 167-170: the summary line and the final sanity check
Summary(p) ==
    /\ pc[p] = "verify"
    /\ vi[p] >= totalBlocks
    /\ out' = Set(out, p, Append(out[p], count[p]))
    /\ IF count[p] > numBlocks
       THEN /\ pc' = Set(pc, p, "fatal")
            /\ err' = Set(err, p, "count")
       ELSE /\ pc' = Set(pc, p, "done")
            /\ err' = err
    /\ UNCHANGED << cfg, faulty, seed, gseed, exists, file, i, off, streamBlocks, b, retries,
                    vi, count, faults, rlog, glog, wlog, reads, mism, syncs, codecVars >>

Next ==
    \/ Validate(1)
    \/ Create(1)
    \/ Ftruncate(1)
    \/ WriteIter(1)
    \/ Place(1)
    \/ StartVerify(1)
    \/ VerifyIter(1)
    \/ Summary(1)

Spec == Init /\ [][Next]_vars

\* ---------------------------------------------------- two runs, one seed
\* Two runs of one configuration, the second started when the first is over.  The
\* storage is fault-free.  Each run has its -seed and its global-source state: the
\* global source is never seeded by the program, so its state is whatever the Go
\* runtime gives the process.
DetConfigs ==
    { c \in Configs : c.blockSz = 8 /\ c.fileSz = 20 /\ c.syncBlocks = 0
                      /\ c.stream \in { <<1, 2>>, <<2, 2>> } }

InitDet ==
    /\ cfg \in DetConfigs
    /\ faulty = FALSE
    /\ seed \in [Procs -> Seeds]
    /\ gseed \in [Procs -> GSeeds]
    /\ RunInit
    /\ CodecIdle

Ended(p) == pc[p] \in {"done", "fatal", "panic"}

NextDet ==
    \/ Next
    \/ /\ Ended(1)
       /\ \/ Validate(2)
          \/ Create(2)
          \/ Ftruncate(2)
          \/ WriteIter(2)
          \/ Place(2)
          \/ StartVerify(2)
          \/ VerifyIter(2)
          \/ Summary(2)

SpecDet == InitDet /\ [][NextDet]_vars

\* ------------------------------------------------------- codec on its own
\* fillBuf and verifyBuf applied to bounded inputs: a block size, the bytes drawn,
\* and optionally one inverted payload bit between the two calls.
CodecSizes == {4, 8, 10, 12}
CodecBytes == {0, 254}
CodecDraws(n) ==
    { [k \in 1..n |-> IF k <= n - 4 THEN pl[k] ELSE 254] : pl \in [1..(n - 4) -> CodecBytes] }

IdleCfg ==
    [ blockSz |-> 8, numBlocks |-> 0, fileSz |-> 20, mode |-> "rand", stream |-> <<1, 2>>,
      syncBlocks |-> 0 ]

InitCodec ==
    /\ cfg = IdleCfg
    /\ faulty = FALSE
    /\ seed = [p \in Procs |-> 42]
    /\ gseed = [p \in Procs |-> 1]
    /\ RunInit
    /\ cPhase = "input"
    /\ cSize \in CodecSizes
    /\ cRnd \in CodecDraws(cSize)
    /\ cBuf = << >>
    /\ cOk = FALSE

CodecFill ==
    /\ cPhase = "input"
    /\ IF FillBufFatal(cSize)
       THEN cPhase' = "fatal" /\ cBuf' = cBuf
       ELSE cPhase' = "filled" /\ cBuf' = fillBuf(cSize, cRnd)
    /\ UNCHANGED << runVars, cSize, cRnd, cOk >>

CodecFlip ==
    /\ cPhase = "filled"
    /\ \E pos \in 1..(cSize - 4), bit \in 0..7 : cBuf' = FlipBit(cBuf, pos, bit)
    /\ cPhase' = "flipped"
    /\ UNCHANGED << runVars, cSize, cRnd, cOk >>

CodecVerify ==
    /\ cPhase \in {"filled", "flipped"}
    /\ cOk' = verifyBuf(cBuf)
    /\ cPhase' = IF cPhase = "filled" THEN "verified" ELSE "flipverified"
    /\ UNCHANGED << runVars, cSize, cRnd, cBuf >>

NextCodec == CodecFill \/ CodecFlip \/ CodecVerify

SpecCodec == InitCodec /\ [][NextCodec]_vars

\* ================================================================ claims
\* the k-th block-sized stride of run p's file, k = 0, 1, ...
Stride(p, k) == SubSeq(file[p], k * blockSz + 1, (k + 1) * blockSz)

\* the write loop of run p has been left through its exit test
WriteLoopOver(p) ==
    \/ pc[p] \in {"verify", "done", "panic"}
    \/ (pc[p] = "fatal" /\ err[p] = "count")

MinOf(S) == CHOOSE x \in S : \A y \in S : x <= y

\* stream mode: the writes that start a run, and the last write of the run started at k
RunStarts(p) == { k \in 1..Len(wlog[p]) : wlog[p][k].new }
IsLastRun(p, k) == ~ \E j \in RunStarts(p) : j > k
RunEnd(p, k) ==
    IF IsLastRun(p, k) THEN Len(wlog[p]) ELSE MinOf({ j \in RunStarts(p) : j > k }) - 1
RunWrites(p, k) == RunEnd(p, k) - k + 1
RunContiguous(p, k) ==
    \A j \in k..(RunEnd(p, k) - 1) : wlog[p][j + 1].off = wlog[p][j].off + blockSz

\* C1: with no storage fault the verifier's count never exceeds the number of write
\* operations, in every mode, so the final check count > numBlocks never ends the run.
C1_CountWithinWrites ==
    faults[1] = 0 => (count[1] <= numBlocks /\ err[1] # "count")

C1_Witness ==
    /\ pc[1] = "done" /\ faults[1] = 0 /\ mode = "rand"
    /\ numBlocks = 2 /\ out[1] = << 1 >>

\* C2: sequential mode, once the write loop is over: strides 0 .. numBlocks-1 are
\* non-zero and pass verifyBuf, every other stride is all-zero, the file keeps its
\* size, and a fault-free scan prints exactly numBlocks and reports no mismatch.
C2_SeqLayout ==
    (mode = "seq" /\ WriteLoopOver(1)) =>
        /\ Len(file[1]) = fileSz
        /\ Len(wlog[1]) = numBlocks
        /\ \A k \in 0..(totalBlocks - 1) :
              IF k < numBlocks
              THEN ~IsEmpty(Stride(1, k)) /\ verifyBuf(Stride(1, k))
              ELSE IsEmpty(Stride(1, k))
        /\ \A k \in (totalBlocks * blockSz + 1)..fileSz : file[1][k] = 0
        /\ (out[1] # << >> /\ faults[1] = 0) => (out[1] = << numBlocks >> /\ mism[1] = {})

C2_Witness ==
    /\ mode = "seq" /\ pc[1] = "done" /\ faults[1] = 0
    /\ numBlocks = 2 /\ out[1] = << 2 >> /\ mism[1] = {}

C4_SameSeedSameFile ==
    (seed[1] = seed[2] /\ WriteLoopOver(1) /\ WriteLoopOver(2)) =>
        (file[1] = file[2] /\ wlog[1] = wlog[2])

\* the configuration errors of the specification
ConfigError ==
    \/ blockSz < 8
    \/ blockSz % 4 # 0
    \/ blockSz >= fileSz
    \/ minBlocks >= maxBlocks
    \/ (mode = "seq" /\ numBlocks > totalBlocks)

\* C5: a configuration error ends the run before any I/O: the file of a run with
\* such a configuration is never created, and no block is generated or written.
C5_ConfigErrorBeforeIO ==
    ConfigError => (~exists[1] /\ glog[1] = << >> /\ wlog[1] = << >>)

\* the scenario of C6: one stream of exactly L blocks on a file that has room for it
C6_Scenario ==
    /\ mode = "stream" /\ minBlocks = maxBlocks /\ numBlocks = minBlocks
    /\ ~FillBufFatal(blockSz) /\ blockSz < fileSz /\ numBlocks <= totalBlocks

\* C6 as stated: stream mode with stream-min = stream-max = blocks = L is accepted.
C6_EqualBoundsAccepted ==
    C6_Scenario => err[1] # "config"

\* C6 amended: stream mode with stream-min = stream-max = blocks = L is rejected by
\* the validation (stream-min must be less than stream-max): the run ends fatally
\* with no file created, no run started, no block written and nothing verified.
C6_EqualBoundsRejected ==
    C6_Scenario =>
        /\ pc[1] \in {"validate", "fatal"}
        /\ pc[1] = "fatal" => err[1] = "config"
        /\ ~exists[1] /\ wlog[1] = << >> /\ reads[1] = << >> /\ out[1] = << >>

C6_Witness ==
    C6_Scenario /\ numBlocks = 2 /\ pc[1] = "fatal" /\ err[1] = "config"

\* C7: whenever a validated stream-mode run is in the placement loop, some start
\* index in 0 .. totalBlocks-1 passes the loop's test for the drawn run length.
C7_FeasibleStart ==
    pc[1] = "place" => \E s \in 0..(totalBlocks - 1) : StartFits(s, streamBlocks[1])

\* C8: a block built by fillBuf, unmodified, is accepted by verifyBuf.
C8_RoundTrip ==
    cPhase = "verified" => cOk

C8_Witness ==
    cPhase = "verified" /\ cOk /\ cSize = 12 /\ cRnd[1] = 254 /\ cRnd[2] = 0

\* C9: a block built by fillBuf with one payload bit inverted and the trailer
\* untouched is refused by verifyBuf.
C9_Sensitivity ==
    cPhase = "flipverified" => ~cOk

C9_Witness ==
    /\ cPhase = "flipverified" /\ ~cOk /\ cSize = 12
    /\ cBuf[8] = 126 /\ SubSeq(cBuf, 9, 12) = SubSeq(fillBuf(cSize, cRnd), 9, 12)

\* C10: a step of the scan never aborts it: in a run of an error-free configuration,
\* from a stride that is still to be read the run goes on to the next stride (and so
\* to the summary after the last one), whatever the read returned.
C10_ScanNeverAborts ==
    [][ (~ConfigError /\ pc[1] = "verify" /\ vi[1] < totalBlocks)
          => (pc'[1] = "verify" /\ vi'[1] = vi[1] + 1) ]_vars

\* the file obtained from f by the writes of log, in order
RECURSIVE Replay(_, _)
Replay(f, log) ==
    IF log = << >> THEN f
    ELSE Replay(WriteAt(f, Head(log).data, Head(log).off), Tail(log))

\* run p was ended by the failure of create, truncate, write or flush
IOFailed(p) == err[p] \in {"create", "truncate", "write", "sync"}

\* what a failed call leaves apart from the file's bytes: the run is over, the loop
\* index has not moved, every logged write precedes the failure, no flush follows it
\* and the scan has not started
C11_Halted ==
    /\ pc[1] = "fatal"
    /\ reads[1] = << >> /\ out[1] = << >> /\ vi[1] = 0 /\ count[1] = 0
    /\ Len(wlog[1]) = (IF err[1] = "sync" THEN i[1] + 1 ELSE i[1])
    /\ \A k \in 1..Len(syncs[1]) : syncs[1][k] <= i[1]
    /\ exists[1] = (err[1] # "create")

\* C11 as stated: a failed create, truncate, write or flush ends the run at once and
\* leaves the file with exactly the blocks written before the failure.
C11_IOErrorFatalExactBlocks ==
    IOFailed(1) =>
        /\ C11_Halted
        /\ file[1] = IF err[1] \in {"create", "truncate"} THEN << >>
                     ELSE Replay(Zeros(fileSz), wlog[1])

\* C11 amended: a failed create, truncate, write or flush ends the run at once: no
\* further block is written, no flush is issued, the scan never starts; the file
\* holds the blocks written before the failure and, after a failed write, possibly
\* a leading part of the block whose write failed.
C11_IOErrorFatal ==
    IOFailed(1) =>
        /\ C11_Halted
        /\ LET done == Replay(Zeros(fileSz), wlog[1]) IN
           CASE err[1] \in {"create", "truncate"} -> file[1] = << >>
             [] err[1] = "sync" -> file[1] = done
             [] err[1] = "write" ->
                  \/ file[1] = done
                  \/ \E n \in 1..(blockSz - 1) :
                        file[1] = WriteAt(done, SubSeq(b[1], 1, n), off[1])

C11_Witness ==
    /\ err[1] = "write" /\ pc[1] = "fatal" /\ i[1] = 1 /\ Len(wlog[1]) = 1
    /\ file[1] # Replay(Zeros(fileSz), wlog[1])

\* C12: with sync interval s # 0 a flush follows the k-th write exactly when k is a
\* positive multiple of s; with s = 0 no flush is issued.  (The k-th write is the one
\* of loop index k-1.)
C12_FlushAtMultiples ==
    ~IOFailed(1) =>
        \A k \in 1..i[1] :
           (\E j \in 1..Len(syncs[1]) : syncs[1][j] = k - 1)
              <=> (syncBlocks # 0 /\ k % syncBlocks = 0)

\* C13: a file that received no write (-blocks 0) scans as all holes: with no storage
\* fault every stride read is all-zero, nothing is counted or reported, and the
\* summary prints 0 after all totalBlocks strides have been read.
C13_FreshFileAllHoles ==
    (numBlocks = 0 /\ faults[1] = 0) =>
        /\ count[1] = 0 /\ mism[1] = {}
        /\ \A k \in 1..Len(reads[1]) : reads[1][k].res = "zero"
        /\ out[1] # << >> => (out[1] = << 0 >> /\ Len(reads[1]) = totalBlocks)
        /\ pc[1] \notin {"fatal", "panic"} \/ err[1] = "config"

C13_Witness ==
    /\ numBlocks = 0 /\ faults[1] = 0 /\ pc[1] = "done"
    /\ out[1] = << 0 >> /\ Len(reads[1]) = 4

\* the file of run p has been truncated to its size
Truncated(p) ==
    \/ pc[p] \in {"write", "place", "verify", "done", "panic"}
    \/ (pc[p] = "fatal" /\ err[p] \in {"fillBuf", "write", "sync", "count"})

\* C14: every write goes to k*blockSz with 0 <= k <= totalBlocks-1, so no write
\* extends the file: once truncated, the file has exactly fileSz bytes.
C14_WritesInsideFile ==
    /\ \A j \in 1..Len(wlog[1]) :
          /\ wlog[1][j].off % blockSz = 0
          /\ wlog[1][j].off \div blockSz >= 0
          /\ wlog[1][j].off \div blockSz <= totalBlocks - 1
          /\ wlog[1][j].off + blockSz <= fileSz
    /\ Truncated(1) => Len(file[1]) = fileSz

\* C15: when the scan is over, the strides read are those at 0, blockSz, 2*blockSz,
\* ... in increasing order, and every byte of the file lies in one of them, also
\* when fileSz is not a multiple of blockSz.
C15_ScanCoversFile ==
    (~ConfigError /\ out[1] # << >>) =>
        /\ \A j \in 1..Len(reads[1]) : reads[1][j].i = j - 1
        /\ \A k \in 1..fileSz :
              \E j \in 1..Len(reads[1]) :
                 reads[1][j].i * blockSz < k /\ k <= (reads[1][j].i + 1) * blockSz

\* C16: in seq and rand modes the stream bounds play no part in accepting the
\* configuration: a run in these modes is rejected only for a block size that is not
\* below the file size or, in seq mode, for more blocks than the file holds.
C16_StreamBoundsOnlyInStream ==
    (mode # "stream" /\ err[1] = "config") =>
        (blockSz >= fileSz \/ (mode = "seq" /\ numBlocks > totalBlocks))

\* C17: the count is the number of strides whose read succeeded and returned a block
\* that is not all-zero, whether or not the block passes the checksum; the summary
\* prints that number.
C17_CountIsNonZeroReads ==
    LET nz == { j \in 1..Len(reads[1]) : reads[1][j].res \in {"good", "bad"} } IN
    /\ count[1] = Cardinality(nz)
    /\ out[1] # << >> => out[1] = << Cardinality(nz) >>

C17_Witness ==
    /\ out[1] = << 2 >> /\ Len(reads[1]) = 2
    /\ reads[1][1].res = "good" /\ reads[1][2].res = "bad"

\* the block indexes written by run p, and the strides of its file that are not all-zero
WrittenIndexes(p) == { wlog[p][j].off \div blockSz : j \in 1..Len(wlog[p]) }
NonZeroStrides(p) ==
    { k \in 0..((Len(file[p]) \div blockSz) - 1) : ~IsEmpty(Stride(p, k)) }

\* C18: no block written is all-zero, the non-zero strides of the file are the block
\* indexes written, and a scan with no storage fault counts exactly the distinct
\* block indexes written.
C18_CountIsDistinctWritten ==
    /\ \A j \in 1..Len(wlog[1]) : ~IsEmpty(wlog[1][j].data)
    /\ (~IOFailed(1) /\ Truncated(1)) => NonZeroStrides(1) = WrittenIndexes(1)
    /\ (out[1] # << >> /\ faults[1] = 0) => out[1] = << Cardinality(WrittenIndexes(1)) >>

\* the writes of run p that went to block index k
WritesAt(p, k) == { j \in 1..Len(wlog[p]) : wlog[p][j].off = k * blockSz }
MaxOf(S) == CHOOSE x \in S : \A y \in S : x >= y

\* C19: as long as no write failed, every stride of the file is all-zero (never
\* written) or holds the block most recently written at its index, whole; so a scan
\* of fault-free storage reports no mismatch.
C19_StridesHoldLastBlock ==
    (Truncated(1) /\ ~IOFailed(1)) =>
        /\ \A k \in 0..((Len(file[1]) \div blockSz) - 1) :
              IF WritesAt(1, k) = {} THEN IsEmpty(Stride(1, k))
              ELSE Stride(1, k) = wlog[1][MaxOf(WritesAt(1, k))].data
        /\ \A j \in 1..Len(wlog[1]) : wlog[1][j].off % blockSz = 0
        /\ faults[1] = 0 => mism[1] = {}

C19_Witness ==
    /\ pc[1] = "done" /\ faults[1] = 0 /\ mode = "rand" /\ mism[1] = {}
    /\ Len(wlog[1]) = 2 /\ wlog[1][1].off = wlog[1][2].off
    /\ wlog[1][1].data # wlog[1][2].data
    /\ Stride(1, wlog[1][2].off \div blockSz) = wlog[1][2].data

====
